---- MODULE Spec2Model ----
(***************************************************************************)
(* Model of the thread-per-connection HTTP server of src/src/main.rs.      *)
(*                                                                         *)
(* Text is a sequence of lexemes.  A lexeme is a TLA+ string standing for  *)
(* an indivisible run of bytes ("GET", "/", "\r\n", ":", " ", "a", ...);    *)
(* its byte length is Len of the string.  The separators the code searches *)
(* for (CRLF, ':', ',', whitespace) are always lexemes of their own, so    *)
(* split_once, rsplit_once, split, trim and starts_with act on lexeme      *)
(* sequences exactly as the Rust functions act on the bytes.               *)
(***************************************************************************)
EXTENDS Integers, Sequences, FiniteSets, TLC

CR_LF == "\r\n"
MAX_BUFFER_SIZE == 1024
SP == " "

----------------------------------------------------------------------------
(* str helpers (std::str)                                                  *)

RECURSIVE ByteLen(_)
ByteLen(s) == IF s = <<>> THEN 0 ELSE Len(Head(s)) + ByteLen(Tail(s))

\* positions of lexeme d in s
Positions(s, d) == {i \in 1..Len(s) : s[i] = d}

SetMin(S) == CHOOSE x \in S : \A y \in S : x <= y
SetMax(S) == CHOOSE x \in S : \A y \in S : x >= y

SplitAt(s, i) ==
    [some |-> TRUE, fst |-> SubSeq(s, 1, i - 1), snd |-> SubSeq(s, i + 1, Len(s))]

\* str::split_once: None, or the text before and after the first d
SplitOnce(s, d) ==
    IF Positions(s, d) = {} THEN [some |-> FALSE] ELSE SplitAt(s, SetMin(Positions(s, d)))

\* str::rsplit_once: None, or the text before and after the last d
RSplitOnce(s, d) ==
    IF Positions(s, d) = {} THEN [some |-> FALSE] ELSE SplitAt(s, SetMax(Positions(s, d)))

\* str::split: the segments between the occurrences of d (always at least one)
RECURSIVE Split(_, _)
Split(s, d) ==
    IF Positions(s, d) = {} THEN <<s>>
    ELSE <<SplitOnce(s, d).fst>> \o Split(SplitOnce(s, d).snd, d)

NonEmpty(segs) == SelectSeq(segs, LAMBDA x : x # <<>>)

\* str::split_whitespace: the non-empty runs between whitespace
SplitWhitespace(s) == NonEmpty(Split(s, SP))

\* str::trim
RECURSIVE TrimStart(_)
TrimStart(s) == IF s # <<>> /\ Head(s) = SP THEN TrimStart(Tail(s)) ELSE s

RECURSIVE TrimEnd(_)
TrimEnd(s) ==
    IF s # <<>> /\ s[Len(s)] = SP THEN TrimEnd(SubSeq(s, 1, Len(s) - 1)) ELSE s

Trim(s) == TrimEnd(TrimStart(s))

\* str::starts_with
StartsWith(s, p) == Len(s) >= Len(p) /\ SubSeq(s, 1, Len(p)) = p

\* the longest prefix of s of at most n bytes (a read into a buffer of n bytes)
RECURSIVE TakeBytes(_, _)
TakeBytes(s, n) ==
    IF s = <<>> \/ Len(Head(s)) > n THEN <<>>
    ELSE <<Head(s)>> \o TakeBytes(Tail(s), n - Len(Head(s)))

Digits == <<"0", "1", "2", "3", "4", "5", "6", "7", "8", "9">>

\* usize::to_string / u16 formatting: the decimal digits
RECURSIVE to_string(_)
to_string(n) ==
    IF n < 10 THEN <<Digits[n + 1]>> ELSE to_string(n \div 10) \o <<Digits[(n % 10) + 1]>>

DigitValue(d) == CHOOSE v \in 0..9 : Digits[v + 1] = d

IsDigit(d) == \E v \in 0..9 : Digits[v + 1] = d

RECURSIVE DecimalValue(_)
DecimalValue(s) ==
    IF s = <<>> THEN 0
    ELSE 10 * DecimalValue(SubSeq(s, 1, Len(s) - 1)) + DigitValue(s[Len(s)])

\* str::parse::<usize>: Err on an empty string or a non-digit
ParseUsize(s) ==
    IF s # <<>> /\ \A i \in 1..Len(s) : IsDigit(s[i])
    THEN [ok |-> TRUE, value |-> DecimalValue(s)]
    ELSE [ok |-> FALSE]

\* [T]::join
RECURSIVE Join(_, _)
Join(segs, d) ==
    IF segs = <<>> THEN <<>>
    ELSE IF Len(segs) = 1 THEN segs[1]
    ELSE segs[1] \o <<d>> \o Join(Tail(segs), d)

----------------------------------------------------------------------------
(* the closed sets of wire tokens (strum EnumString / Display)             *)

StatusCodeNumber ==
    [Ok |-> 200, Created |-> 201, BadRequest |-> 400, NotFound |-> 404,
     InternalServerError |-> 500]

StatusCode ==
    [Ok |-> "OK", Created |-> "Created", BadRequest |-> "Bad Request",
     NotFound |-> "Not Found", InternalServerError |-> "Internal Server Error"]

SupprotedHeader ==
    [ContentType |-> "Content-Type", ContentLength |-> "Content-Length",
     ContentEncoding |-> "Content-Encoding", UserAgent |-> "User-Agent",
     AcceptEncoding |-> "Accept-Encoding"]

ContentType ==
    [TextPlain |-> "text/plain", ApplicationJson |-> "application/json",
     ApplicationOctetStream |-> "application/octet-stream", TextHtml |-> "text/html"]

SupportedEncoding == [Gzip |-> "gzip", Deflate |-> "deflate"]

HttpMethod ==
    [Get |-> "GET", Post |-> "POST", Put |-> "PUT", Delete |-> "DELETE",
     Patch |-> "PATCH", Head |-> "HEAD", Options |-> "OPTIONS",
     Connect |-> "CONNECT", Trace |-> "TRACE"]

HttpVersion == [Http1_0 |-> "HTTP/1.0", Http1_1 |-> "HTTP/1.1", Http2_0 |-> "HTTP/2.0"]

\* EnumString::from_str on the table e: the variant serialized as the text s
FromStr(e, s) ==
    IF Len(s) = 1 /\ \E v \in DOMAIN e : e[v] = s[1]
    THEN [ok |-> TRUE, value |-> CHOOSE v \in DOMAIN e : e[v] = s[1]]
    ELSE [ok |-> FALSE]

----------------------------------------------------------------------------
(* flate2 encoders.  The compressed stream is kept symbolic: a framing      *)
(* lexeme per codec around the payload, so the two codecs differ, the       *)
(* stream differs from its input in content and in length, and decoding     *)
(* recovers the input.                                                      *)

DeflateEncoder(bytes) == <<"<deflate>">> \o bytes \o <<"</deflate>">>

GzEncoder(bytes) == <<"<gzip-header>">> \o DeflateEncoder(bytes) \o <<"<crc32+isize>">>

----------------------------------------------------------------------------
(* Header, HttpRequest                                                     *)

Header_new(key, value) == [key |-> key, value |-> value]

\* &s[n..]: the text after the first n bytes
RECURSIVE SkipBytes(_, _)
SkipBytes(s, n) ==
    IF n <= 0 \/ s = <<>> THEN s ELSE SkipBytes(Tail(s), n - Len(Head(s)))

\* Header::parse_headers: the pairs whose name is in the closed set, in order
RECURSIVE parse_headers(_)
parse_headers(pairs) ==
    IF pairs = <<>> THEN <<>>
    ELSE (IF FromStr(SupprotedHeader, pairs[1].key).ok
          THEN <<Header_new(FromStr(SupprotedHeader, pairs[1].key).value, pairs[1].value)>>
          ELSE <<>>)
         \o parse_headers(Tail(pairs))

\* the first header named key, as Option<&Header> (iter().find)
FindHeader(headers, key) ==
    IF \A i \in 1..Len(headers) : headers[i].key # key THEN [some |-> FALSE]
    ELSE [some |-> TRUE,
          value |-> headers[SetMin({i \in 1..Len(headers) : headers[i].key = key})].value]

\* the second split of extract_request_components, on the text after the
\* status line
components_of_rest(status_line, rest) ==
    IF ~rest.some THEN [panic |-> TRUE]
    ELSE [panic |-> FALSE, status_line |-> status_line,
          header_line |-> rest.fst, body_line |-> rest.snd]

components_of_first(first) ==
    IF ~first.some THEN [panic |-> TRUE]
    ELSE components_of_rest(first.fst, RSplitOnce(first.snd, CR_LF))

\* extract_request_components: both unwraps panic on None
extract_request_components(https_request) ==
    components_of_first(SplitOnce(https_request, CR_LF))

\* the (key, value) of a header line that has a ':'
header_pair(kv) == [key |-> kv.fst, value |-> kv.snd]

header_pairs(headers) ==
    IF \E i \in 1..Len(headers) : ~SplitOnce(headers[i], ":").some
    THEN [panic |-> TRUE]
    ELSE [panic |-> FALSE,
          pairs |-> [i \in 1..Len(headers) |-> header_pair(SplitOnce(headers[i], ":"))]]

\* extract_request_headers: split_once(":").unwrap() panics on a line without ':'
extract_request_headers(header_line) == header_pairs(NonEmpty(Split(header_line, CR_LF)))

\* HttpRequest::new once the status line has its three parts: from_str of the
\* method and of the version, then the headers
request_of_parts(status_parts, header_line, body_line) ==
    IF ~FromStr(HttpMethod, status_parts[1]).ok \/ ~FromStr(HttpVersion, status_parts[3]).ok
    THEN [kind |-> "Err", reason |-> <<"Matching variant not found">>]
    ELSE IF extract_request_headers(header_line).panic THEN [kind |-> "Panic"]
    ELSE [kind |-> "Ok", method |-> FromStr(HttpMethod, status_parts[1]).value,
          path |-> status_parts[2],
          version |-> FromStr(HttpVersion, status_parts[3]).value,
          headers |-> parse_headers(extract_request_headers(header_line).pairs),
          body |-> body_line]

\* HttpRequest::new on the components of the message
request_of_components(parts) ==
    IF parts.panic THEN [kind |-> "Panic"]
    ELSE IF Len(SplitWhitespace(parts.status_line)) # 3
    THEN [kind |-> "Err", reason |-> <<"Invalid status line">>]
    ELSE request_of_parts(SplitWhitespace(parts.status_line), parts.header_line,
                          parts.body_line)

\* HttpRequest::new: Ok(request), Err(reason) or a panic
HttpRequest_new(http_request) ==
    request_of_components(extract_request_components(http_request))

----------------------------------------------------------------------------
(* SupportedEncoding::retrieve_supported_encodings                         *)

RECURSIVE RecognisedEncodings(_)
RecognisedEncodings(values) ==
    IF values = <<>> THEN <<>>
    ELSE (IF FromStr(SupportedEncoding, Trim(values[1])).ok
          THEN <<FromStr(SupportedEncoding, Trim(values[1])).value>> ELSE <<>>)
         \o RecognisedEncodings(Tail(values))

retrieve_supported_encodings(headers) ==
    IF FindHeader(headers, "AcceptEncoding").some
    THEN RecognisedEncodings(Split(Trim(FindHeader(headers, "AcceptEncoding").value), ","))
    ELSE <<>>

----------------------------------------------------------------------------
(* HttpResponse                                                            *)

HttpResponse_new(status_code, headers, body, encoding_type) ==
    [status_code |-> status_code, headers |-> headers, body |-> body,
     encoding_type |-> encoding_type]

\* the arms of the match taken for one another
compress_string_swapped(body, encoding_type) ==
    IF encoding_type = "Gzip" THEN DeflateEncoder(body) ELSE GzEncoder(body)

compress_string(body, encoding_type) ==
    IF encoding_type = "Gzip" THEN GzEncoder(body) ELSE DeflateEncoder(body)

create_content_length_header(body) ==
    Header_new("ContentLength", to_string(ByteLen(body)))

\* the Content-Encoding header body_to_bytes pushes for a selected encoding
content_encoding_header(encoding_type) ==
    Header_new("ContentEncoding", <<SupportedEncoding.Gzip>>)

\* the headers body_to_bytes starts from
response_header_base(headers) ==
    IF \E i \in 1..Len(headers) : headers[i].key = "ContentType"
    THEN headers
    ELSE headers \o <<Header_new("ContentType", <<ContentType.TextPlain>>)>>

FormatHeader(header) == <<SupprotedHeader[header.key], ":", SP>> \o header.value

\* the headers and the wire body of a response: Content-Type by default,
\* Content-Encoding and the compressed body when an encoding is selected
headers_and_body(self) ==
    IF self.encoding_type # "None"
    THEN [headers |-> response_header_base(self.headers)
                      \o <<content_encoding_header(self.encoding_type)>>,
          body |-> compress_string(self.body, self.encoding_type)]
    ELSE [headers |-> response_header_base(self.headers), body |-> self.body]

format_headers(headers) ==
    Join([i \in 1..Len(headers) |-> FormatHeader(headers[i])], CR_LF) \o <<CR_LF>>

serialize(status_code, framed) ==
    <<HttpVersion.Http1_1, SP>> \o to_string(StatusCodeNumber[status_code])
    \o <<SP, StatusCode[status_code], CR_LF>>
    \o format_headers(framed.headers \o <<create_content_length_header(framed.body)>>)
    \o <<CR_LF>> \o framed.body

body_to_bytes(self) == serialize(self.status_code, headers_and_body(self))

----------------------------------------------------------------------------
(* handle_client                                                           *)

ECHO_PREFIX  == <<"/", "echo", "/">>
FILES_PREFIX == <<"/", "files", "/">>

\* what one run of handle_client leaves behind: how the thread ended, the
\* responses written to the stream, the file system, and the match arm taken
Outcome(kind, route, written, files) ==
    [kind |-> kind, route |-> route, written |-> written, files |-> files]

\* stream.write_all(&http_response.body_to_bytes())
Respond(route, http_response, files) ==
    Outcome("returned", route, <<body_to_bytes(http_response)>>, files)

\* Vec::contains
contains(list, x) == \E i \in 1..Len(list) : list[i] = x

\* content_encoding as set from the Accept-Encoding header
content_encoding_of(request_headers) ==
    IF contains(retrieve_supported_encodings(request_headers), "Gzip") THEN "Gzip" ELSE "None"

\* the arm of match (method, path) that is taken
route_of(method, path) ==
    IF method = "Get" /\ path = <<"/">> THEN "root"
    ELSE IF method = "Get" /\ StartsWith(path, ECHO_PREFIX) THEN "echo"
    ELSE IF method = "Get" /\ path = <<"/", "user-agent">> THEN "user-agent"
    ELSE IF method = "Get" /\ StartsWith(path, FILES_PREFIX) THEN "get-files"
    ELSE IF method = "Post" /\ StartsWith(path, FILES_PREFIX) THEN "post-files"
    ELSE "fallback"

\* the response headers the fallback arm hands to HttpResponse::new
fallback_headers(request_headers) == request_headers

\* the slice taken one byte early
echo_body_off_by_one(path) == SkipBytes(path, 5)

\* the path suffix the echo arm answers with
echo_body(path) == SkipBytes(path, 6)

\* the arm (GET, "/user-agent")
user_agent_arm(request_headers, content_encoding, files) ==
    IF FindHeader(request_headers, "UserAgent").some
    THEN Respond("user-agent",
                 HttpResponse_new("Ok", <<>>,
                                  Trim(FindHeader(request_headers, "UserAgent").value),
                                  content_encoding),
                 files)
    ELSE Respond("user-agent",
                 HttpResponse_new("BadRequest", <<>>, <<"Bad Request">>, content_encoding),
                 files)

\* std::fs::read_to_string(file_path) and the response to it
read_arm(file_path, content_encoding, files) ==
    IF file_path \in DOMAIN files
    THEN Respond("get-files",
                 HttpResponse_new("Ok",
                     <<Header_new("ContentType", <<ContentType.ApplicationOctetStream>>)>>,
                     files[file_path], content_encoding),
                 files)
    ELSE Respond("get-files",
                 HttpResponse_new("NotFound", <<>>, <<StatusCode.NotFound>>, content_encoding),
                 files)

\* the arm (GET, "/files/...")
get_files_arm(path, directory, content_encoding, files) ==
    read_arm(directory \o SkipBytes(path, 7), content_encoding, files)

\* std::fs::write(path, body) that succeeds: the file is created or replaced
fs_write(files, file_path, body) ==
    [p \in DOMAIN files \cup {file_path} |-> IF p = file_path THEN body ELSE files[p]]

\* std::fs::write(file_path, body) and the response to it; write_ok is whether
\* the write succeeds
write_arm(file_path, body, content_encoding, files, write_ok) ==
    IF write_ok
    THEN Respond("post-files",
                 HttpResponse_new("Created", <<>>, <<StatusCode.Created>>, content_encoding),
                 fs_write(files, file_path, body))
    ELSE Respond("post-files",
                 HttpResponse_new("InternalServerError", <<>>, <<"Internal Server Error">>,
                                  content_encoding),
                 files)

\* content_length.parse().unwrap() and &request_body[..content_length]: both panic
sliced_arm(file_path, content_length, request_body, content_encoding, files, write_ok) ==
    IF ~content_length.ok THEN Outcome("panicked", "post-files", <<>>, files)
    ELSE IF content_length.value > ByteLen(request_body)
    THEN Outcome("panicked", "post-files", <<>>, files)
    ELSE write_arm(file_path, TakeBytes(request_body, content_length.value),
                   content_encoding, files, write_ok)

\* the arm (POST, "/files/..."): find(Content-Length).unwrap() panics on None
post_files_arm(path, request_headers, request_body, directory, content_encoding, files, write_ok) ==
    IF ~FindHeader(request_headers, "ContentLength").some
    THEN Outcome("panicked", "post-files", <<>>, files)
    ELSE sliced_arm(directory \o SkipBytes(path, 7),
                    ParseUsize(Trim(FindHeader(request_headers, "ContentLength").value)),
                    request_body, content_encoding, files, write_ok)

\* match (method, path)
dispatch(route, request, content_encoding, directory, files, write_ok) ==
    CASE route = "root" ->
           Respond(route,
                   HttpResponse_new("Ok", <<>>, <<"Hello, World!">>, content_encoding),
                   files)
      [] route = "echo" ->
           Respond(route,
                   HttpResponse_new("Ok", <<>>, echo_body(request.path), content_encoding),
                   files)
      [] route = "user-agent" ->
           user_agent_arm(request.headers, content_encoding, files)
      [] route = "get-files" ->
           get_files_arm(request.path, directory, content_encoding, files)
      [] route = "post-files" ->
           post_files_arm(request.path, request.headers, request.body, directory,
                          content_encoding, files, write_ok)
      [] OTHER ->
           Respond(route,
                   HttpResponse_new("NotFound", fallback_headers(request.headers),
                                    <<StatusCode.NotFound>>, content_encoding),
                   files)

\* handle_client once HttpRequest::new has returned or panicked
handle_request(request, directory, files, write_ok) ==
    IF request.kind = "Panic" THEN Outcome("panicked", "none", <<>>, files)
    ELSE IF request.kind = "Err"
    THEN Respond("none", HttpResponse_new("BadRequest", <<>>, request.reason, "None"), files)
    ELSE dispatch(route_of(request.method, request.path), request,
                  content_encoding_of(request.headers), directory, files, write_ok)

\* handle_client on the bytes the client sent: one read of at most
\* MAX_BUFFER_SIZE bytes, then parse, route and write
handle_client(sent, directory, files, write_ok) ==
    handle_request(HttpRequest_new(TakeBytes(sent, MAX_BUFFER_SIZE)), directory, files,
                   write_ok)

----------------------------------------------------------------------------
(* The clients.  A request is what a client composes: the tokens of its    *)
(* status line, its header lines, its body, and how much of the message     *)
(* reaches the server in the one read handle_client makes.                  *)

MaxBody == 2

Hdr(name, value) == [name |-> name, colon |-> TRUE, value |-> value]
UA        == Hdr("User-Agent", <<"test-agent", SP>>)
Host      == Hdr("Host", <<"localhost", ":", "4221">>)
AEGzip    == Hdr("Accept-Encoding", <<"gzip">>)
AEDeflate == Hdr("Accept-Encoding", <<"deflate">>)
AEBoth    == Hdr("Accept-Encoding", <<"deflate", ",", SP, "gzip">>)
CTHtml    == Hdr("Content-Type", <<"text/html">>)
CTJson    == Hdr("Content-Type", <<"application/json">>)
CEDeflate == Hdr("Content-Encoding", <<"deflate">>)
CL(n)     == Hdr("Content-Length", to_string(n))
CLWord    == Hdr("Content-Length", <<"nine">>)
NoColon   == [name |-> "garbage", colon |-> FALSE, value |-> <<>>]

HeaderLine(h) == IF h.colon THEN <<h.name, ":", SP>> \o h.value ELSE <<h.name>>

\* every line followed by its CRLF
RECURSIVE Lines(_)
Lines(segs) == IF segs = <<>> THEN <<>> ELSE segs[1] \o <<CR_LF>> \o Lines(Tail(segs))

Request(tokens, headers, body, framing) ==
    [tokens |-> tokens, headers |-> headers, body |-> body, framing |-> framing]

\* the bytes of a request: "full" is the whole message, "line" the status line
\* and its CRLF alone, "bare" the status line without a CRLF
Wire(req) ==
    Join(req.tokens, SP)
    \o CASE req.framing = "bare" -> <<>>
         [] req.framing = "line" -> <<CR_LF>>
         [] OTHER ->
              <<CR_LF>>
              \o Lines([i \in 1..Len(req.headers) |-> HeaderLine(req.headers[i])])
              \o <<CR_LF>> \o req.body

V11 == <<"HTTP/1.1">>
PRoot  == <<"/">>
PEcho  == <<"/", "echo", "/", "some", "Text">>
PAgent == <<"/", "user-agent">>
PFile  == <<"/", "files", "/", "test", ".txt">>
POther == <<"/", "index", ".html">>

RouteRequests ==
    {Request(<<<<m>>, p, V11>>, h, <<>>, "full") :
        m \in {"GET", "POST", "PUT"},
        p \in {PRoot, PEcho, PAgent, PFile, POther},
        h \in {<<>>, <<Host, UA, AEBoth>>}}

HeaderRequests ==
    {Request(<<<<m>>, p, V11>>, h, <<>>, "full") :
        m \in {"GET"},
        p \in {PRoot, POther},
        h \in {<<AEGzip>>, <<AEDeflate>>, <<AEDeflate, AEGzip>>, <<CL(5)>>, <<CTHtml>>,
               <<CTHtml, CTJson>>, <<CEDeflate, AEGzip>>, <<NoColon>>, <<UA, NoColon>>}}

BadLines ==
    { <<<<"GET">>, PRoot>>,
      <<<<"GET">>, PRoot, V11, <<"extra">>>>,
      <<<<"BREW">>, PRoot, V11>>,
      <<<<"GET">>, PRoot, <<"HTTP/3.0">>>>,
      <<>> }

BadLineRequests ==
    {Request(t, <<AEGzip>>, <<>>, f) : t \in BadLines, f \in {"full", "line", "bare"}}
    \cup {Request(t, <<NoColon>>, <<>>, "full") : t \in BadLines}
    \cup {Request(<<<<"GET">>, PRoot, V11>>, <<>>, <<>>, f) : f \in {"line", "bare"}}

RECURSIVE Bodies(_)
Bodies(n) ==
    IF n = 0 THEN {<<>>}
    ELSE Bodies(n - 1) \cup {b \o <<c>> : b \in Bodies(n - 1), c \in {"a", CR_LF}}

PostRequests ==
    UNION {{Request(<<<<"POST">>, PFile, V11>>, <<h>>, b, "full") :
               h \in {CL(ByteLen(b)), CL(ByteLen(b) + 1), CLWord}} :
           b \in Bodies(MaxBody)}

Requests == RouteRequests \cup HeaderRequests \cup BadLineRequests \cup PostRequests

----------------------------------------------------------------------------
(* The server: main's accept loop and one thread per connection            *)

Conn == {"c1", "c2"}
MaxAcceptErrors == 1
DefaultDirectory == <<"/", "tmp", "/">>

VARIABLES main, accept_errors, conn, files, built

vars == <<main, accept_errors, conn, files, built>>

Idle == [state |-> "idle"]
NotBuilt == [state |-> "none"]

Init ==
    /\ main = "accepting"
    /\ accept_errors = 0
    /\ conn = [c \in Conn |-> Idle]
    /\ files = <<>>
    /\ built = NotBuilt

\* the panic carried into main, as by a join().unwrap() or an inline call
main_dies_with_worker(m) == "panicked"

\* what a panic of a spawned thread does to main: thread::spawn confines it
main_after_worker_panic(m) == m

\* listener.incoming() yields Ok(stream): the thread is spawned with its own
\* clone of the directory; req is the request this client sends
Accept(c) ==
    /\ main = "accepting"
    /\ conn[c].state = "idle"
    /\ \E req \in Requests :
         conn' = [conn EXCEPT ![c] = [state |-> "spawned", req |-> req,
                                      directory |-> DefaultDirectory]]
    /\ UNCHANGED <<main, accept_errors, files, built>>

\* listener.incoming() yields Err(e): printed, and the loop goes on
AcceptError ==
    /\ main = "accepting"
    /\ accept_errors < MaxAcceptErrors
    /\ accept_errors' = accept_errors + 1
    /\ UNCHANGED <<main, conn, files, built>>

\* what the end of handle_client leaves: the connection's responses, the files,
\* and main, which a panic of the thread does not reach
Finish(c, out) ==
    /\ conn' = [conn EXCEPT ![c] = [state |-> out.kind, req |-> conn[c].req,
                                    route |-> out.route, written |-> out.written]]
    /\ files' = out.files
    /\ main' = IF out.kind = "panicked" THEN main_after_worker_panic(main) ELSE main

\* the thread of connection c runs handle_client to its end
HandleClient(c) ==
    /\ conn[c].state = "spawned"
    /\ \E write_ok \in BOOLEAN :
         Finish(c, handle_client(Wire(conn[c].req), conn[c].directory, files, write_ok))
    /\ UNCHANGED <<accept_errors, built>>

Next ==
    \/ \E c \in Conn : Accept(c)
    \/ AcceptError
    \/ \E c \in Conn : HandleClient(c)

Spec == Init /\ [][Next]_vars

----------------------------------------------------------------------------
(* The Response Builder on its own: body_to_bytes applied to any response  *)

BuilderInputs ==
    {HttpResponse_new(sc, h, b, e) :
        sc \in DOMAIN StatusCode,
        h \in {<<>>, <<Header_new("ContentType", <<ContentType.ApplicationOctetStream>>)>>},
        b \in Bodies(MaxBody),
        e \in {"None", "Gzip", "Deflate"}}

Build ==
    /\ \E r \in BuilderInputs :
         built' = [state |-> "built", response |-> r, bytes |-> body_to_bytes(r)]
    /\ UNCHANGED <<main, accept_errors, conn, files>>

NextBuilder == Build

SpecBuilder == Init /\ [][NextBuilder]_vars

----------------------------------------------------------------------------
(* What a client reads off the wire                                        *)

\* the position of the blank line: the first CRLF directly followed by a CRLF
BlankAt(w) == SetMin({i \in 1..(Len(w) - 1) : w[i] = CR_LF /\ w[i + 1] = CR_LF})

WireBody(w) == SubSeq(w, BlankAt(w) + 2, Len(w))

WireHeadLines(w) == Split(SubSeq(w, 1, BlankAt(w) - 1), CR_LF)

WireStatus(w) == DecimalValue(SplitWhitespace(WireHeadLines(w)[1])[2])

\* the values, trimmed and in order, of the response headers called name
WireHeader(w, name) ==
    LET lines == Tail(WireHeadLines(w))
        named == SelectSeq(lines, LAMBDA l : SplitOnce(l, ":").some
                                             /\ SplitOnce(l, ":").fst = <<name>>)
    IN  [i \in 1..Len(named) |-> Trim(SplitOnce(named[i], ":").snd)]

Undecodable == [ok |-> FALSE]

DeflateDecoder(bytes) ==
    IF Len(bytes) >= 2 /\ bytes[1] = "<deflate>" /\ bytes[Len(bytes)] = "</deflate>"
    THEN [ok |-> TRUE, value |-> SubSeq(bytes, 2, Len(bytes) - 1)]
    ELSE Undecodable

GzDecoder(bytes) ==
    IF Len(bytes) >= 2 /\ bytes[1] = "<gzip-header>" /\ bytes[Len(bytes)] = "<crc32+isize>"
    THEN DeflateDecoder(SubSeq(bytes, 2, Len(bytes) - 1))
    ELSE Undecodable

\* the body a client recovers: gzip-decoded when the response says gzip
Uncompressed(w) ==
    IF contains(WireHeader(w, "Content-Encoding"), <<"gzip">>)
    THEN GzDecoder(WireBody(w)) ELSE [ok |-> TRUE, value |-> WireBody(w)]

----------------------------------------------------------------------------
(* What a client knows of its own request                                  *)

Finished(c) == conn[c].state \in {"returned", "panicked"}

Values(e) == {e[v] : v \in DOMAIN e}

\* the request reached the server whole
Whole(req) == req.framing = "full"

ThreeTokens(req) == Len(req.tokens) = 3

HasToken(value, token) == \E i \in 1..Len(value) : value[i] = token

\* a status line of three tokens with a method and a version of the closed sets
GoodLine(req) ==
    /\ ThreeTokens(req)
    /\ Len(req.tokens[1]) = 1 /\ req.tokens[1][1] \in Values(HttpMethod)
    /\ Len(req.tokens[3]) = 1 /\ req.tokens[3][1] \in Values(HttpVersion)

HasColonlessLine(req) == \E i \in 1..Len(req.headers) : ~req.headers[i].colon

\* a whole request with a good status line and well-formed header lines
WellFormed(req) == Whole(req) /\ GoodLine(req) /\ ~HasColonlessLine(req)

\* the lines between the status line and the last CRLF of the message, and the
\* text after that CRLF: what the parser is to take for header block and body
BlockLines(req) ==
    [i \in 1..Len(req.headers) |-> HeaderLine(req.headers[i])]
    \o <<<<>>>> \o SubSeq(Split(req.body, CR_LF), 1, Len(Split(req.body, CR_LF)) - 1)

CapturedBody(req) == Split(req.body, CR_LF)[Len(Split(req.body, CR_LF))]

\* the requests HttpRequest::new is to accept: a good status line, and every
\* non-empty line of the header block with a ':'
Parseable(req) ==
    /\ Whole(req) /\ GoodLine(req)
    /\ \A i \in 1..Len(BlockLines(req)) :
           BlockLines(req)[i] = <<>> \/ HasToken(BlockLines(req)[i], ":")

\* the values, in order, of the request headers called name
SentHeader(req, name) ==
    LET named == SelectSeq(req.headers, LAMBDA h : h.colon /\ h.name = name)
    IN  [i \in 1..Len(named) |-> named[i].value]

\* some Accept-Encoding header of the request lists gzip
AcceptsGzip(req) ==
    Whole(req) /\ \E i \in 1..Len(SentHeader(req, "Accept-Encoding")) :
                      HasToken(SentHeader(req, "Accept-Encoding")[i], "gzip")

\* the first Accept-Encoding header of the request lists gzip
FirstAcceptsGzip(req) ==
    /\ Whole(req)
    /\ SentHeader(req, "Accept-Encoding") # <<>>
    /\ HasToken(SentHeader(req, "Accept-Encoding")[1], "gzip")

WithoutAcceptEncoding(req) ==
    [req EXCEPT !.headers =
        SelectSeq(req.headers, LAMBDA h : ~(h.colon /\ h.name = "Accept-Encoding"))]

Method(req) == req.tokens[1][1]
Path(req) == req.tokens[2]

IsPrefixed(path, first) == Len(path) >= 3 /\ path[1] = "/" /\ path[2] = first /\ path[3] = "/"

\* the file a /files/ request names
FileOf(req) == DefaultDirectory \o SubSeq(Path(req), 4, Len(Path(req)))

\* c has just run its handler in this step
Handled(c) == conn[c].state = "spawned" /\ conn'[c].state # "spawned"

----------------------------------------------------------------------------
(* The claims                                                              *)

Responses(c) == IF Finished(c) THEN conn[c].written ELSE <<>>

\* C1: every response carries a Content-Length header, and every
\* Content-Length header it carries gives the number of bytes after the blank line.
C1_ContentLengthIsBodyLength ==
    \A c \in Conn : \A k \in 1..Len(Responses(c)) :
        LET w == Responses(c)[k]
            lengths == WireHeader(w, "Content-Length")
        IN  /\ lengths # <<>>
            /\ \A i \in 1..Len(lengths) :
                   /\ ParseUsize(lengths[i]).ok
                   /\ ParseUsize(lengths[i]).value = ByteLen(WireBody(w))

\* C3: a request whose status line has other than three tokens is answered with
\* one 400 Bad Request and is not routed, whatever follows the status line and
\* whether or not anything follows it.
C3_WrongTokenCountIs400 ==
    \A c \in Conn :
        Finished(c) /\ ~ThreeTokens(conn[c].req) =>
            /\ Len(conn[c].written) = 1
            /\ WireStatus(conn[c].written[1]) = 400
            /\ conn[c].route = "none"

\* C4: a request with a well-formed status line and a header line without ':'
\* is answered with one 400 Bad Request whose body is the failure reason, and no
\* route handler runs.
C4_ColonlessHeaderIs400 ==
    \A c \in Conn :
        Finished(c) /\ Whole(conn[c].req) /\ GoodLine(conn[c].req)
                    /\ HasColonlessLine(conn[c].req) =>
            /\ Len(conn[c].written) = 1
            /\ WireStatus(conn[c].written[1]) = 400
            /\ WireBody(conn[c].written[1]) # <<>>
            /\ conn[c].route = "none"

\* the request fails in one of the ways the claim C7 lists
FailsC7(c) ==
    \/ ~Parseable(conn[c].req)
    \/ conn[c].route = "post-files"
         /\ \/ SentHeader(conn[c].req, "Content-Length") = <<>>
            \/ ~ParseUsize(SentHeader(conn[c].req, "Content-Length")[1]).ok
            \/ ParseUsize(SentHeader(conn[c].req, "Content-Length")[1]).value
                   > ByteLen(CapturedBody(conn[c].req))

\* C7: a worker that has ended has written exactly one response, and when the
\* request failed that response carries an error status.
C7_OneResponseBeforeExit ==
    \A c \in Conn :
        Finished(c) =>
            /\ Len(conn[c].written) = 1
            /\ FailsC7(c) => WireStatus(conn[c].written[1]) \in {400, 404, 500}

\* C10: every response carries exactly one Content-Type, exactly one
\* Content-Length and at most one Content-Encoding header, and no User-Agent or
\* Accept-Encoding header of the request.
C10_ResponseHeadersAreTheBuildersOwn ==
    \A c \in Conn : \A k \in 1..Len(Responses(c)) :
        LET w == Responses(c)[k]
        IN  /\ Len(WireHeader(w, "Content-Type")) = 1
            /\ Len(WireHeader(w, "Content-Length")) = 1
            /\ Len(WireHeader(w, "Content-Encoding")) <= 1
            /\ WireHeader(w, "User-Agent") = <<>>
            /\ WireHeader(w, "Accept-Encoding") = <<>>


\* a POST /files/ request whose Content-Length is the byte length of its body
MatchingPost(req) ==
    /\ WellFormed(req) /\ Method(req) = "POST" /\ IsPrefixed(Path(req), "files")
    /\ SentHeader(req, "Content-Length") = <<to_string(ByteLen(req.body))>>

GetFile(req) == WellFormed(req) /\ Method(req) = "GET" /\ IsPrefixed(Path(req), "files")

\* C5: a POST /files/f whose Content-Length matches its body b is answered 201
\* and leaves exactly b in the file (unless the write itself fails, which is
\* answered 500), and a GET /files/f of a file that holds b is answered 200 with
\* body b and Content-Type application/octet-stream.
C5_PostThenGetRoundTrip ==
    [][\A c \in Conn : Handled(c) =>
         /\ MatchingPost(conn[c].req) =>
              /\ Len(conn'[c].written) = 1
              /\ \/ WireStatus(conn'[c].written[1]) = 500
                 \/ /\ WireStatus(conn'[c].written[1]) = 201
                    /\ FileOf(conn[c].req) \in DOMAIN files'
                    /\ files'[FileOf(conn[c].req)] = conn[c].req.body
         /\ GetFile(conn[c].req) /\ FileOf(conn[c].req) \in DOMAIN files =>
              /\ Len(conn'[c].written) = 1
              /\ WireStatus(conn'[c].written[1]) = 200
              /\ Uncompressed(conn'[c].written[1]) =
                     [ok |-> TRUE, value |-> files[FileOf(conn[c].req)]]
              /\ WireHeader(conn'[c].written[1], "Content-Type")
                     = <<<<"application/octet-stream">>>>
    ]_vars

\* the arm of the routing table a request falls to, read off the request itself
TableRoute(req) ==
    CASE Method(req) = "GET" /\ Path(req) = <<"/">> -> "root"
      [] Method(req) = "GET" /\ IsPrefixed(Path(req), "echo") -> "echo"
      [] Method(req) = "GET" /\ Path(req) = <<"/", "user-agent">> -> "user-agent"
      [] Method(req) = "GET" /\ IsPrefixed(Path(req), "files") -> "get-files"
      [] Method(req) = "POST" /\ IsPrefixed(Path(req), "files") -> "post-files"
      [] OTHER -> "fallback"

Answered(c, status, body) ==
    /\ Len(conn[c].written) = 1
    /\ WireStatus(conn[c].written[1]) = status
    /\ Uncompressed(conn[c].written[1]) = [ok |-> TRUE, value |-> body]

\* C6: a parseable request is handled by the one arm the table gives it, and on
\* the root, echo, user-agent and fallback arms the status and the uncompressed
\* body are the table's.
C6_RoutingTable ==
    \A c \in Conn :
        Finished(c) /\ Parseable(conn[c].req) =>
            LET req == conn[c].req
                agents == SentHeader(req, "User-Agent")
            IN  /\ conn[c].route = TableRoute(req)
                /\ TableRoute(req) = "root" => Answered(c, 200, <<"Hello, World!">>)
                /\ TableRoute(req) = "echo" =>
                       Answered(c, 200, SubSeq(Path(req), 4, Len(Path(req))))
                /\ TableRoute(req) = "user-agent" /\ agents # <<>> =>
                       Answered(c, 200, Trim(agents[1]))
                /\ TableRoute(req) = "user-agent" /\ agents = <<>> =>
                       Answered(c, 400, <<"Bad Request">>)
                /\ TableRoute(req) = "fallback" => Answered(c, 404, <<"Not Found">>)

\* every arm of the table but the file arms has answered some connection
C6_Witness ==
    /\ \E c \in Conn : Finished(c) /\ Parseable(conn[c].req) /\ conn[c].route = "echo"
                       /\ Answered(c, 200, <<"some", "Text">>)
                       /\ WireHeader(conn[c].written[1], "Content-Encoding") = <<<<"gzip">>>>
    /\ \E c \in Conn : Finished(c) /\ Parseable(conn[c].req) /\ conn[c].route = "fallback"
                       /\ Method(conn[c].req) = "POST"
                       /\ Answered(c, 404, <<"Not Found">>)

\* the end of connection c's handler in this step is a failure: a panic or an
\* error response
FailedStep(c) ==
    /\ Handled(c)
    /\ \/ conn'[c].state = "panicked"
       \/ WireStatus(conn'[c].written[1]) \in {400, 404, 500}

GzipOfPlain(written, plain) ==
    \A k \in 1..Len(written) :
        /\ contains(WireHeader(written[k], "Content-Encoding"), <<"gzip">>)
        /\ Len(plain) = 1
        /\ GzDecoder(WireBody(written[k])) = [ok |-> TRUE, value |-> WireBody(plain[1])]

PlainResponse(req, ok) ==
    handle_client(Wire(WithoutAcceptEncoding(req)), DefaultDirectory, files, ok).written

DecoderNamed(name, bytes) ==
    CASE name = <<"gzip">> -> GzDecoder(bytes)
      [] name = <<"deflate">> -> DeflateDecoder(bytes)
      [] OTHER -> Undecodable

====
